---- MODULE Spec2Model ----
(***************************************************************************)
(* A model of the two utilities of sre-intelligence-hub:                   *)
(*   fetch_data.py      dataset fetch / hash verification, with the        *)
(*                      module-level MODE flag;                            *)
(*   notebook_toggle.py the NOTEBOOK_MODE registry, its settings tables    *)
(*                      and the cell-execution cache.                      *)
(*                                                                         *)
(* Bytes are sequences of integer tokens: NL is the byte '\n', BadByte a   *)
(* byte run that is not valid UTF-8, every other token a run of text       *)
(* without a newline.  SHA-256 is modelled as an injective function: the   *)
(* digest of a payload is the payload itself, wrapped, except for the      *)
(* reference payloads of KnownContent, whose digests are taken to be the   *)
(* hex strings of DATASET_HASHES.  (The strings shipped in the table are   *)
(* 32 hex digits long, a SHA-256 hexdigest is 64: in the shipped           *)
(* configuration no file verifies.  The model admits reference payloads    *)
(* so that the verified / cached branches of the code are exercised; the   *)
(* model's behaviours include all those of the shipped configuration.)     *)
(***************************************************************************)
EXTENDS Integers, Sequences, FiniteSets, TLC

VARIABLES
    MODE,        \* fetch_data.MODE
    environ,     \* os.environ, the two mode variables
    files,       \* data/<name>.csv: its bytes, or Absent
    cell_cache,  \* notebook_toggle._cell_cache, its keys
    ret,         \* the last call: arguments, result, exception
    since_change \* history: the cells cache_cell was called for since get_mode last changed

vars == <<MODE, environ, files, cell_cache, ret, since_change>>

-----------------------------------------------------------------------------
(* Bounds of the model *)

\* the source payloads have up to QuickRows + ExtraRows data rows
ExtraRows == 1
\* cell ids are 1..MaxCell
MaxCell == 2

(* Program constants *)

\* lines[:101]  -- header + 100 rows
QuickLines == 101
QuickRows == 100

-----------------------------------------------------------------------------
(* Values *)

None == "None"
Unset == "<unset>"
Absent == <<-9>>

NL == 0
BadByte == -1

Min(a, b) == IF a < b THEN a ELSE b

\* str.lower() on the strings the model passes around
lower(s) ==
    CASE s = "QUICK" -> "quick"
      [] s = "FULL" -> "full"
      [] OTHER -> s

\* what callers and the environment may supply as a mode
ModeInputs == {"quick", "full", "QUICK", "fast"}
EnvValues == {"quick", "full", "FULL", "fast"}

DATA_MODE == "DATA_MODE"
MODE_KEY == "NOTEBOOK_MODE"
DEFAULT_MODE == "quick"

\* os.environ.get(key, default)
environ_get(key, default) ==
    IF environ[key] = Unset THEN default ELSE environ[key]

\* get_mode that never looks at the environment
get_mode_default == DEFAULT_MODE

\* notebook_toggle.get_mode
get_mode == lower(environ_get(MODE_KEY, DEFAULT_MODE))

\* the history variable, kept by every step: emptied when get_mode changes,
\* grown by cache_cell
History ==
    since_change' =
        IF get_mode' # get_mode THEN {}
        ELSE IF ret'.op = "cache_cell" THEN since_change \cup {ret'.size}
        ELSE since_change

-----------------------------------------------------------------------------
(* Payloads *)

Hdr(v) == v * 1000
Row(v, i) == v * 1000 + i

\* a CSV of variant v: a header line and n data rows, '\n' between lines,
\* and a final '\n' when nl
Csv(v, n, nl) ==
    [k \in 1..(2 * n + 1 + (IF nl THEN 1 ELSE 0)) |->
        IF k % 2 = 0 THEN NL
        ELSE IF k = 1 THEN Hdr(v) ELSE Row(v, (k - 1) \div 2)]

RowCounts == {0, QuickRows - 1, QuickRows} \cup (QuickRows + 1 .. QuickRows + ExtraRows)

\* what the HTTP GET may answer with
NetPayloads ==
    {Csv(1, n, nl) : n \in RowCounts, nl \in BOOLEAN}
        \cup {<<>>, <<Hdr(1), NL, BadByte, NL>>}

\* bytes.decode(): raises UnicodeDecodeError on bytes that are not UTF-8
Decodable(content) == \A k \in 1..Len(content) : content[k] # BadByte

\* str.split('\n') of s[lo..hi]: cut at a newline near the middle and split
\* both sides (the order of the cuts does not change the list of lines)
RECURSIVE SplitRange(_, _, _)
SplitRange(s, lo, hi) ==
    LET nls == {i \in lo..hi : s[i] = NL}
        mid == (lo + hi) \div 2
        right == {i \in nls : i >= mid}
        p == IF right # {}
             THEN CHOOSE i \in right : \A j \in right : i <= j
             ELSE CHOOSE i \in nls : \A j \in nls : i >= j
    IN  IF nls = {} THEN <<SubSeq(s, lo, hi)>>
        ELSE SplitRange(s, lo, p - 1) \o SplitRange(s, p + 1, hi)

\* str.split('\n')
split(s) == SplitRange(s, 1, Len(s))

RECURSIVE JoinRange(_, _, _)
JoinRange(lines, lo, hi) ==
    IF lo > hi THEN <<>>
    ELSE IF lo = hi THEN lines[lo]
    ELSE LET mid == (lo + hi) \div 2
         IN  JoinRange(lines, lo, mid) \o <<NL>> \o JoinRange(lines, mid + 1, hi)

\* '\n'.join(lines)
join(lines) == JoinRange(lines, 1, Len(lines))

\* the slice one line short: 100 rows with the header counted in
FirstLines_header_counted(lines) == SubSeq(lines, 1, Min(Len(lines), QuickLines - 1))

\* lines[:QuickLines]
FirstLines(lines) == SubSeq(lines, 1, Min(Len(lines), QuickLines))

\* content.decode().split('\n')[:101], joined and encoded again
Truncate(content) == join(FirstLines(split(content)))

-----------------------------------------------------------------------------
(* Hashes *)

DATASET_HASHES ==
    [iris    |-> [quick |-> "a6c1b1b5a0c7f3e7e4b2e1c8d4a3f7b0",
                  full  |-> "a6c1b1b5a0c7f3e7e4b2e1c8d4a3f7b0"],
     digits  |-> [quick |-> "9c7a3d8b1f5e2a4c6d7e9f1a3b5c7d9e",
                  full  |-> "9c7a3d8b1f5e2a4c6d7e9f1a3b5c7d9e"],
     mnist   |-> [quick |-> "f7b8c3e2a1d5c4b9e6f2a8d1c3b5e7f9",
                  full  |-> "8a7f6e5d4c3b2a1f0e9d8c7b6a5f4e3d"],
     boston  |-> [quick |-> "b4c3d2e1f0a9b8c7d6e5f4a3b2c1d0e9",
                  full  |-> "b4c3d2e1f0a9b8c7d6e5f4a3b2c1d0e9"],
     titanic |-> [quick |-> "c5d4e3f2a1b0c9d8e7f6a5b4c3d2e1f0",
                  full  |-> "d6e5f4a3b2c1d0e9f8a7b6c5d4e3f2a1"]]

\* the reference payloads: the bytes whose digest a table entry is taken to be
KnownContent ==
    [h \in {DATASET_HASHES.mnist.quick, DATASET_HASHES.mnist.full} |->
        IF h = DATASET_HASHES.mnist.full
        THEN Csv(1, QuickRows + 1, TRUE)
        ELSE Csv(1, QuickRows, FALSE)]

NoHash == [hex |-> None, of |-> <<>>]
HexDigest(h) == [hex |-> h, of |-> <<>>]

\* hashlib.sha256(data).hexdigest()
compute_hash(data) ==
    IF \E h \in DOMAIN KnownContent : KnownContent[h] = data
    THEN HexDigest(CHOOSE h \in DOMAIN KnownContent : KnownContent[h] = data)
    ELSE [hex |-> "", of |-> data]

\* the data directory holds <name>.csv for these names
Names == {"mnist", "movies"}

\* filepath.exists()
exists(name) == files[name] # Absent

compute_file_hash(name) ==
    IF ~exists(name) THEN NoHash ELSE compute_hash(files[name])

get_expected_hash(dataset) ==
    IF dataset \notin DOMAIN DATASET_HASHES THEN NoHash
    ELSE IF MODE \in DOMAIN DATASET_HASHES[dataset]
         THEN HexDigest(DATASET_HASHES[dataset][MODE])
         ELSE HexDigest(DATASET_HASHES[dataset]["full"])

-----------------------------------------------------------------------------
(* The record of the last call: its arguments and what it returned or raised *)

NoRet ==
    [op |-> "none", name |-> "", mode |-> "", raised |-> "none",
     status |-> "", hash |-> NoHash, expected |-> NoHash, net |-> 0,
     fetched |-> <<>>, data |-> <<>>, size |-> 0, out |-> "", flag |-> FALSE,
     value |-> [t |-> "none", v |-> 0], pre |-> "",
     default |-> [t |-> "none", v |-> 0]]

Call(op, name, mode) ==
    [NoRet EXCEPT !.op = op, !.name = name, !.mode = mode]

-----------------------------------------------------------------------------
(* fetch_data.py *)

\* verify_dataset with the two early returns in the other order
verify_status_missing_first(dataset) ==
    LET expected_hash == get_expected_hash(dataset)
        actual_hash == compute_file_hash(dataset)
    IN  IF actual_hash = NoHash THEN "missing"
        ELSE IF expected_hash = NoHash THEN "unknown"
        ELSE IF actual_hash = expected_hash THEN "verified"
        ELSE "corrupted"

verify_status(dataset) ==
    LET expected_hash == get_expected_hash(dataset)
        actual_hash == compute_file_hash(dataset)
    IN  IF expected_hash = NoHash THEN "unknown"
        ELSE IF actual_hash = NoHash THEN "missing"
        ELSE IF actual_hash = expected_hash THEN "verified"
        ELSE "corrupted"

verify_dataset(dataset) ==
    /\ ret' = [Call("verify_dataset", dataset, "") EXCEPT
                  !.status = verify_status(dataset),
                  !.expected = IF verify_status(dataset) \in {"verified", "corrupted"}
                               THEN get_expected_hash(dataset) ELSE NoHash,
                  !.hash = IF verify_status(dataset) \in {"verified", "corrupted"}
                           THEN compute_file_hash(dataset) ELSE NoHash,
                  !.out = IF verify_status(dataset) \in {"verified", "corrupted"}
                          THEN MODE ELSE ""]
    /\ UNCHANGED <<MODE, environ, files, cell_cache>>
    /\ History

\* the cache test against the hash of the mode "full", whatever MODE is
CacheHit_full_hash(name) ==
    /\ exists(name)
    /\ name \in DOMAIN DATASET_HASHES
    /\ compute_file_hash(name) = HexDigest(DATASET_HASHES[name]["full"])

\* the "already downloaded" test of download_external_dataset
CacheHit(name) ==
    /\ exists(name)
    /\ compute_file_hash(name) = get_expected_hash(name)

\* Truncate, tabulated over the payloads that decode
Truncated == [content \in {c \in NetPayloads : Decodable(c)} |-> Truncate(content)]

\* the bytes download_external_dataset writes for a fetched payload
Persisted(content, mode) ==
    IF mode = "quick" THEN Truncated[content] ELSE content

\* the hash taken of the fetched bytes and never taken again after the cut
download_hash_before_cut(content, mode) == compute_hash(content)

\* the hash download_external_dataset reports
download_hash(content, mode) == compute_hash(Persisted(content, mode))

download_external_dataset(name, mode) ==
  /\
    IF CacheHit(name)
    THEN /\ ret' = [Call("download_external_dataset", name, mode) EXCEPT
                       !.status = "cached", !.expected = get_expected_hash(name)]
         /\ UNCHANGED <<MODE, environ, files, cell_cache>>
    ELSE \/ \* requests.get / raise_for_status raises
            /\ ret' = [Call("download_external_dataset", name, mode) EXCEPT
                          !.raised = "RequestException", !.net = 1,
                          !.expected = get_expected_hash(name)]
            /\ UNCHANGED <<MODE, environ, files, cell_cache>>
         \/ \E content \in NetPayloads :
              IF mode = "quick" /\ ~Decodable(content)
              THEN /\ ret' = [Call("download_external_dataset", name, mode) EXCEPT
                                 !.raised = "UnicodeDecodeError", !.net = 1,
                                 !.fetched = content,
                                 !.expected = get_expected_hash(name)]
                   /\ UNCHANGED <<MODE, environ, files, cell_cache>>
              ELSE /\ files' = [files EXCEPT ![name] = Persisted(content, mode)]
                   /\ ret' = [Call("download_external_dataset", name, mode) EXCEPT
                                 !.status = "downloaded", !.net = 1,
                                 !.fetched = content,
                                 !.expected = get_expected_hash(name),
                                 !.hash = download_hash(content, mode),
                                 !.size = Len(Persisted(content, mode)),
                                 \* the hash-mismatch warning was printed
                                 !.flag = /\ get_expected_hash(name) # NoHash
                                          /\ download_hash(content, mode)
                                                 # get_expected_hash(name)]
                   /\ UNCHANGED <<MODE, environ, cell_cache>>
  /\ History

\* fetch_data.set_mode
fetch_set_mode(mode) ==
    /\ MODE' = lower(mode)
    /\ environ' = [environ EXCEPT ![DATA_MODE] = lower(mode)]
    /\ ret' = Call("fetch_set_mode", "", mode)
    /\ UNCHANGED <<files, cell_cache>>
    /\ History

\* the data directory changed from outside: a file put, replaced or removed
PutContents == {Absent, KnownContent[DATASET_HASHES.mnist.quick],
                KnownContent[DATASET_HASHES.mnist.full], Csv(1, 0, TRUE)}

PutFile(name, content) ==
    /\ files[name] # content
    /\ files' = [files EXCEPT ![name] = content]
    /\ ret' = Call("PutFile", name, "")
    /\ UNCHANGED <<MODE, environ, cell_cache>>
    /\ History

\* the rows datasets.load_iris returns (the size of scikit-learn's iris set)
IrisRows == 150
IrisId == 11

\* rows 1..n of the data a loader returns
LoaderData(id, n) == [i \in 1..n |-> Row(id, i)]

\* the table with the "mnist" the docstring lists
dataset_funcs_with_mnist == {"iris", "digits", "wine", "breast_cancer", "mnist"}

dataset_funcs == {"iris", "digits", "wine", "breast_cancer"}

\* the loader dataset_funcs holds for a name, as the id of the rows it returns
dataset_funcs_loader(name) ==
    CASE name = "iris" -> IrisId
      [] name = "digits" -> 12
      [] name = "wine" -> 13
      [] name = "breast_cancer" -> 14

\* data[:k]
FirstRows(data, k) == SubSeq(data, 1, Min(Len(data), k))

\* the data load_sklearn_dataset returns: every branch calls datasets.load_iris
sklearn_data(name, mode) ==
    LET data == LoaderData(IrisId, IrisRows)
    IN  IF mode = "quick"
        THEN IF name = "wine" THEN FirstRows(data, 30) ELSE FirstRows(data, 100)
        ELSE data

load_sklearn_dataset(name, mode) ==
    /\ IF name \notin dataset_funcs
       THEN ret' = [Call("load_sklearn_dataset", name, mode) EXCEPT
                       !.raised = "ValueError"]
       ELSE ret' = [Call("load_sklearn_dataset", name, mode) EXCEPT
                       !.status = "loaded",
                       !.data = sklearn_data(name, mode),
                       !.hash = compute_hash(sklearn_data(name, mode)),
                       !.size = Len(sklearn_data(name, mode)),
                       !.out = mode]
    /\ UNCHANGED <<MODE, environ, files, cell_cache>>
    /\ History

generators == {"classification", "regression", "blobs", "moons", "circles"}

\* n_samples of each generator
n_samples(name, mode) ==
    IF mode = "quick" THEN 100
    ELSE IF name \in {"classification", "regression"} THEN 1000 ELSE 500

\* X of make_<name>(n_samples, random_state): fixed by the generator, the
\* sample count and the seed
GenId(name) ==
    CASE name = "classification" -> 21
      [] name = "regression" -> 22
      [] name = "blobs" -> 23
      [] name = "moons" -> 24
      [] name = "circles" -> 25

generate_synthetic_dataset(name, mode, random_state) ==
    /\ IF name \notin generators
       THEN ret' = [Call("generate_synthetic_dataset", name, mode) EXCEPT
                       !.raised = "ValueError"]
       ELSE ret' = [Call("generate_synthetic_dataset", name, mode) EXCEPT
                       !.status = "generated",
                       !.data = <<GenId(name), n_samples(name, mode), random_state>>,
                       !.hash = compute_hash(<<GenId(name), n_samples(name, mode),
                                               random_state>>),
                       !.size = n_samples(name, mode),
                       !.out = mode]
    /\ UNCHANGED <<MODE, environ, files, cell_cache>>
    /\ History

\* get_expected_hash called on its own
call_get_expected_hash(dataset) ==
    /\ ret' = [Call("get_expected_hash", dataset, "") EXCEPT
                  !.expected = get_expected_hash(dataset)]
    /\ UNCHANGED <<MODE, environ, files, cell_cache>>
    /\ History

-----------------------------------------------------------------------------
(* notebook_toggle.py *)

Mode == {"quick", "full"}

IntV(i) == [t |-> "int", v |-> i]
BoolV(b) == [t |-> "bool", v |-> IF b THEN 1 ELSE 0]
\* a float, in tenths
FloatV(tenths) == [t |-> "float", v |-> tenths]
NoneV == [t |-> "none", v |-> 0]

QUICK_SETTINGS ==
    [n_samples |-> IntV(100), n_iter |-> IntV(10), test_size |-> FloatV(2),
     n_folds |-> IntV(2), n_jobs |-> IntV(1), max_samples |-> IntV(100),
     cache_data |-> BoolV(FALSE), verbose |-> BoolV(FALSE)]

FULL_SETTINGS ==
    [n_samples |-> IntV(1000), n_iter |-> IntV(100), test_size |-> FloatV(2),
     n_folds |-> IntV(5), n_jobs |-> IntV(-1), max_samples |-> NoneV,
     cache_data |-> BoolV(TRUE), verbose |-> BoolV(TRUE)]

\* dict.get(key, default)
dict_get(d, key, default) == IF key \in DOMAIN d THEN d[key] ELSE default

\* the table chosen without looking at the mode
get_all_settings_quick_only == QUICK_SETTINGS

get_all_settings == IF get_mode = "quick" THEN QUICK_SETTINGS ELSE FULL_SETTINGS

get_setting(key, default) == dict_get(get_all_settings, key, default)

\* the test of set_mode: mode.lower() not in valid_modes
invalid_mode(mode) == lower(mode) \notin Mode

\* _clear_cache without its "global": the module's cache is left as it was
cleared_cache_local == cell_cache

\* what set_mode leaves in the cell cache: _clear_cache()
cleared_cache == {}

\* notebook_toggle.set_mode: the environment and cell cache after it
set_mode_effect(mode) ==
    /\ environ' = [environ EXCEPT ![MODE_KEY] = lower(mode)]
    /\ cell_cache' = cleared_cache

\* a call of the registry, with the mode and the number of cached cells before it
RegistryCall(op, mode) ==
    [Call(op, "", mode) EXCEPT !.pre = get_mode, !.size = Cardinality(cell_cache)]

set_mode(mode) ==
    /\ IF invalid_mode(mode)
       THEN /\ ret' = [RegistryCall("set_mode", mode) EXCEPT !.raised = "ValueError"]
            /\ UNCHANGED <<environ, cell_cache>>
       ELSE /\ set_mode_effect(mode)
            /\ ret' = RegistryCall("set_mode", mode)
    /\ UNCHANGED <<MODE, files>>
    /\ History

\* the mode an argument-less toggle_mode picks
flipped(current) == IF current = "quick" THEN "full" ELSE "quick"

\* toggle_mode flipping the mode whatever its argument
toggle_target_flips(new_mode) == flipped(get_mode)

\* the mode toggle_mode hands to set_mode and returns
toggle_target(new_mode) ==
    IF new_mode = None THEN flipped(get_mode) ELSE new_mode

\* toggle_mode(new_mode); new_mode = None is the call without an argument
toggle_mode(new_mode) ==
    /\ IF invalid_mode(toggle_target(new_mode))
       THEN /\ ret' = [RegistryCall("toggle_mode", new_mode) EXCEPT
                          !.raised = "ValueError"]
            /\ UNCHANGED <<environ, cell_cache>>
       ELSE /\ set_mode_effect(toggle_target(new_mode))
            /\ ret' = [RegistryCall("toggle_mode", new_mode) EXCEPT
                          !.out = toggle_target(new_mode)]
    /\ UNCHANGED <<MODE, files>>
    /\ History

Cells == 1..MaxCell

cache_cell(cell_id) ==
    /\ cell_cache' = cell_cache \cup {cell_id}
    /\ ret' = [Call("cache_cell", "", "") EXCEPT
                  !.size = cell_id, !.flag = cell_id \notin cell_cache]
    /\ UNCHANGED <<MODE, environ, files>>
    /\ History

is_cell_cached(cell_id) ==
    /\ ret' = [Call("is_cell_cached", "", "") EXCEPT
                  !.size = cell_id, !.flag = cell_id \in cell_cache]
    /\ UNCHANGED <<MODE, environ, files, cell_cache>>
    /\ History

\* get_mode called on its own
call_get_mode ==
    /\ ret' = [Call("get_mode", "", "") EXCEPT !.out = get_mode]
    /\ UNCHANGED <<MODE, environ, files, cell_cache>>
    /\ History

SettingKeys == {"n_samples", "max_samples", "batch_size"}
Defaults == {NoneV, IntV(7)}

\* get_setting called on its own
call_get_setting(key, default) ==
    /\ ret' = [Call("get_setting", key, "") EXCEPT
                  !.value = get_setting(key, default), !.default = default]
    /\ UNCHANGED <<MODE, environ, files, cell_cache>>
    /\ History

-----------------------------------------------------------------------------
(* The environment *)

\* an environment variable set or removed from outside the two modules
ExternalSetEnv(key, v) ==
    /\ environ[key] # v
    /\ environ' = [environ EXCEPT ![key] = v]
    /\ ret' = Call("ExternalSetEnv", key, "")
    /\ UNCHANGED <<MODE, files, cell_cache>>
    /\ History

-----------------------------------------------------------------------------
(* Specifications *)

\* module load: MODE = os.environ.get("DATA_MODE", "quick").lower(),
\* _cell_cache = {}; the data directory is empty
Init ==
    /\ environ \in [{DATA_MODE, MODE_KEY} -> EnvValues \cup {Unset}]
    /\ MODE = lower(environ_get(DATA_MODE, "quick"))
    /\ files = [name \in Names |-> Absent]
    /\ cell_cache = {}
    /\ ret = NoRet
    /\ since_change = {}

\* fetch_data.py alone
InitFetch == Init /\ environ[MODE_KEY] = Unset

NextFetch ==
    \/ \E name \in Names, mode \in {"quick", "full", "fast"} :
          download_external_dataset(name, mode)
    \/ \E name \in Names : verify_dataset(name)
    \/ \E mode \in ModeInputs : fetch_set_mode(mode)
    \/ \E name \in {"iris", "wine", "mnist"}, mode \in {"quick", "full"} :
          load_sklearn_dataset(name, mode)
    \/ \E name \in {"blobs", "classification", "spiral"}, mode \in {"quick", "full"} :
          generate_synthetic_dataset(name, mode, 42)
    \/ \E name \in Names, content \in PutContents : PutFile(name, content)

SpecFetch == InitFetch /\ [][NextFetch]_vars

\* notebook_toggle.py alone, driven by calls of its functions
InitToggle == Init /\ environ[DATA_MODE] = Unset

NextToggle ==
    \/ \E mode \in ModeInputs : set_mode(mode)
    \/ \E new_mode \in ModeInputs \cup {None} : toggle_mode(new_mode)
    \/ \E cell_id \in Cells : cache_cell(cell_id)
    \/ \E cell_id \in Cells : is_cell_cached(cell_id)
    \/ call_get_mode
    \/ \E key \in SettingKeys, default \in Defaults : call_get_setting(key, default)

SpecToggle == InitToggle /\ [][NextToggle]_vars

\* the mode flags of both modules, with the environment changing under them
NextEnv ==
    \/ \E key \in {DATA_MODE, MODE_KEY}, v \in EnvValues \cup {Unset} :
          ExternalSetEnv(key, v)
    \/ \E mode \in ModeInputs : fetch_set_mode(mode)
    \/ \E mode \in ModeInputs : set_mode(mode)
    \/ \E new_mode \in ModeInputs \cup {None} : toggle_mode(new_mode)
    \/ \E name \in Names : call_get_expected_hash(name)
    \/ \E name \in Names : verify_dataset(name)
    \/ \E name \in Names, content \in PutContents : PutFile(name, content)
    \/ call_get_mode
    \/ \E key \in SettingKeys, default \in Defaults : call_get_setting(key, default)

SpecEnv == Init /\ [][NextEnv]_vars

-----------------------------------------------------------------------------
(* Properties *)

\* the bytes a hex string of the table is the digest of, if the model has any
HasDigest(content, hex) == hex \in DOMAIN KnownContent /\ KnownContent[hex] = content

\* the hex string verification compares against: the entry of the mode, and
\* the entry "full" when the mode has none
ExpectedHex(dataset, mode) ==
    IF mode \in {"quick", "full"} THEN DATASET_HASHES[dataset][mode]
    ELSE DATASET_HASHES[dataset]["full"]

\* C1: verify_dataset(dataset, file) returns unknown for a dataset outside
\* the registry whatever the file; else missing for an absent file; else
\* verified when the file's bytes hash to the expected hash of the current
\* mode and corrupted when they do not.
C1_VerifyClassifies ==
    ret.op = "verify_dataset" =>
        ret.status =
            IF ret.name \notin DOMAIN DATASET_HASHES THEN "unknown"
            ELSE IF files[ret.name] = Absent THEN "missing"
            ELSE IF HasDigest(files[ret.name], ExpectedHex(ret.name, MODE))
                 THEN "verified"
                 ELSE "corrupted"

C1_Witness ==
    /\ ret.op = "verify_dataset"
    /\ ret.status = "verified"
    /\ MODE = "full"

\* C2: download_external_dataset of a dataset whose cached file exists and
\* hashes to the expected hash makes no network call, returns cached and
\* leaves the file as it is, for every mode argument and every MODE.
C2_CachedNoRefetch ==
    [][(/\ ret'.op = "download_external_dataset"
        /\ ret'.name \in DOMAIN DATASET_HASHES
        /\ files[ret'.name] # Absent
        /\ HasDigest(files[ret'.name], ExpectedHex(ret'.name, MODE)))
       => (/\ ret'.status = "cached"
           /\ ret'.raised = "none"
           /\ ret'.net = 0
           /\ files' = files)]_vars

C2_Witness ==
    /\ ret.op = "download_external_dataset"
    /\ ret.status = "cached"
    /\ ret.net = 0
    /\ MODE = "quick"
    /\ ret.mode = "full"

\* C3: two consecutive toggle_mode() calls without an argument leave get_mode()
\* as it was before them, in every state of the registry.
C3_ToggleTwiceRestores ==
    [][(/\ ret.op = "toggle_mode" /\ ret.mode = None
        /\ ret'.op = "toggle_mode" /\ ret'.mode = None)
       => get_mode' = ret.pre]_vars

\* C4: toggle_mode("quick") with the mode already quick returns "quick" and
\* leaves get_mode and every setting as they were.
C4_ToggleQuickIdempotent ==
    [][(/\ ret'.op = "toggle_mode"
        /\ ret'.mode = "quick"
        /\ get_mode = "quick")
       => (/\ ret'.raised = "none"
           /\ ret'.out = "quick"
           /\ get_mode' = "quick"
           /\ get_all_settings' = get_all_settings
           /\ get_all_settings' = QUICK_SETTINGS
           /\ \A key \in SettingKeys, default \in Defaults :
                 get_setting(key, default)' = get_setting(key, default))]_vars

C4_Witness ==
    /\ ret.op = "toggle_mode"
    /\ ret.mode = "quick"
    /\ ret.pre = "quick"
    /\ ret.out = "quick"
    /\ environ[MODE_KEY] = "quick"

\* C5: every set-mode operation called with a value that is not quick or
\* full raises ValueError and changes neither MODE, the environment nor the
\* cell cache.
C5_InvalidModeRejected ==
    [][(/\ ret'.op \in {"set_mode", "toggle_mode", "fetch_set_mode"}
        /\ ret'.mode # None
        /\ lower(ret'.mode) \notin {"quick", "full"})
       => (/\ ret'.raised = "ValueError"
           /\ MODE' = MODE
           /\ environ' = environ
           /\ cell_cache' = cell_cache)]_vars

RegistryOps == {"set_mode", "toggle_mode"}

\* the last call was a set_mode / toggle_mode that changed get_mode
ModeJustChanged ==
    /\ ret.op \in RegistryOps
    /\ ret.raised = "none"
    /\ ret.pre # get_mode

\* C6: every cached cell was cached by a cache_cell call made after the
\* most recent change of get_mode; right after a set_mode / toggle_mode that
\* changes the mode no cell is cached, is_cell_cached is False and cache_cell
\* returns True for every cell.
C6_CacheInvalidatedOnModeChange ==
    /\ [](/\ cell_cache \subseteq since_change
          /\ (ret.op = "is_cell_cached" /\ ret.flag) => ret.size \in since_change
          /\ ModeJustChanged => cell_cache = {})
    /\ [][/\ (ret'.op \in RegistryOps /\ get_mode' # get_mode) => cell_cache' = {}
          /\ (ModeJustChanged /\ ret'.op = "is_cell_cached") => ret'.flag = FALSE
          /\ (ModeJustChanged /\ ret'.op = "cache_cell") => ret'.flag = TRUE]_vars

C6_Witness ==
    /\ ModeJustChanged
    /\ ret.size = MaxCell
    /\ cell_cache = {}

\* the step provisions a name its source kind does not know
UnknownName(r) ==
    \/ r.op = "load_sklearn_dataset"
         /\ r.name \notin {"iris", "digits", "wine", "breast_cancer"}
    \/ r.op = "generate_synthetic_dataset"
         /\ r.name \notin {"classification", "regression", "blobs", "moons", "circles"}
    \/ r.op = "download_external_dataset" /\ r.name \notin DOMAIN DATASET_HASHES

EnvMode(key) == lower(IF environ[key] = Unset THEN "quick" ELSE environ[key])

\* what the toggle utility answers when it reads the environment at the call
NotebookReadsEnv ==
    /\ ret.op = "get_mode" => ret.out = EnvMode(MODE_KEY)
    /\ ret.op = "get_setting" =>
          ret.value =
             LET table == IF EnvMode(MODE_KEY) = "quick"
                          THEN QUICK_SETTINGS ELSE FULL_SETTINGS
             IN  IF ret.name \in DOMAIN table THEN table[ret.name] ELSE ret.default

\* C8: DATA_MODE and NOTEBOOK_MODE are each read at call time: the next
\* mode-dependent operation uses the value the variable has then.
C8_EnvReadAtCallTime ==
    /\ NotebookReadsEnv
    /\ (ret.op \in {"get_expected_hash", "verify_dataset"}
           /\ ret.name \in DOMAIN DATASET_HASHES
           /\ (ret.op = "verify_dataset" => files[ret.name] # Absent))
        => ret.expected = HexDigest(ExpectedHex(ret.name, EnvMode(DATA_MODE)))

\* C8 as amended: NOTEBOOK_MODE is read at every call; DATA_MODE is read
\* once, when fetch_data is loaded, into MODE: get_expected_hash and
\* verify_dataset use MODE, a later change of the variable leaves MODE as it
\* is, and only fetch_data.set_mode changes it.
C8_NotebookAtCallFetchAtLoad ==
    /\ [](/\ NotebookReadsEnv
          /\ (ret.op \in {"get_expected_hash", "verify_dataset"}
                 /\ ret.name \in DOMAIN DATASET_HASHES
                 /\ (ret.op = "verify_dataset" => files[ret.name] # Absent))
              => ret.expected = HexDigest(ExpectedHex(ret.name, MODE)))
    /\ [][/\ ret'.op = "ExternalSetEnv" => MODE' = MODE
          /\ MODE' # MODE => ret'.op = "fetch_set_mode"]_vars

C8_Witness ==
    /\ ret.op = "get_expected_hash"
    /\ ret.name = "mnist"
    /\ environ[DATA_MODE] = "full"
    /\ MODE = "quick"
    /\ ret.expected = HexDigest(DATASET_HASHES.mnist.quick)
    /\ environ[MODE_KEY] = "FULL"
    /\ get_mode = "full"

NlCount(content) == Cardinality({i \in 1..Len(content) : content[i] = NL})

\* part is the first k lines of content: a prefix, all of it when content
\* has no more than k lines, and else cut before the k-th newline
IsFirstLines(part, content, k) ==
    /\ Len(part) <= Len(content)
    /\ part = SubSeq(content, 1, Len(part))
    /\ IF Len(part) = Len(content)
       THEN NlCount(content) < k
       ELSE content[Len(part) + 1] = NL /\ NlCount(part) = k - 1

\* the fetch of the last call went through and its bytes can be cut
FetchedAndCut ==
    /\ ret.op = "download_external_dataset"
    /\ ret.net = 1
    /\ ret.raised # "RequestException"
    /\ (ret.mode = "quick" => Decodable(ret.fetched))

\* C9: a download whose fetch succeeds returns downloaded also when the
\* hash of the (possibly cut) payload differs from the expected hash: the
\* payload is in the cache file, and the hash returned is the hash of the
\* bytes written.
C9_HashMismatchIsWarning ==
    FetchedAndCut =>
        /\ ret.status = "downloaded"
        /\ ret.raised = "none"
        /\ files[ret.name] # Absent
        /\ IF ret.mode = "quick"
           THEN IsFirstLines(files[ret.name], ret.fetched, QuickLines)
           ELSE files[ret.name] = ret.fetched
        /\ ret.hash = compute_hash(files[ret.name])
        /\ ret.size = Len(files[ret.name])
        /\ ret.flag = (ret.expected # NoHash /\ ret.hash # ret.expected)

C9_Witness ==
    /\ FetchedAndCut
    /\ ret.status = "downloaded"
    /\ ret.mode = "quick"
    /\ ret.name = "mnist"
    /\ ret.flag
    /\ ret.hash # ret.expected
    /\ Len(files[ret.name]) < Len(ret.fetched)

\* C10: the quick-mode cut of a fetched CSV with a header keeps the header
\* and the first 100 data rows, 101 lines, when the CSV has at least 100
\* data rows, and the whole file when it has fewer; full mode writes the
\* fetched bytes as they are.
C10_QuickKeepsHeaderAnd100Rows ==
    \A n \in RowCounts, nl \in BOOLEAN :
        (/\ ret.op = "download_external_dataset"
         /\ ret.net = 1
         /\ ret.fetched = Csv(1, n, nl))
        => /\ ret.status = "downloaded"
           /\ (ret.mode = "quick" /\ n >= QuickRows) =>
                 /\ files[ret.name] = Csv(1, QuickRows, FALSE)
                 /\ NlCount(files[ret.name]) + 1 = QuickRows + 1
           /\ (ret.mode = "quick" /\ n < QuickRows) => files[ret.name] = ret.fetched
           /\ ret.mode = "full" => files[ret.name] = ret.fetched

C10_Witness ==
    /\ ret.op = "download_external_dataset"
    /\ ret.mode = "quick"
    /\ ret.fetched = Csv(1, QuickRows + 1, TRUE)
    /\ files[ret.name] = Csv(1, QuickRows, FALSE)

\* C11: get_setting answers from the table of the mode get_mode returns, the
\* table's value when the key is in it and the caller's default when it is
\* not; get_setting("n_samples") is 100 in quick mode and 1000 in full mode,
\* whatever set_mode and toggle_mode calls came before.
C11_SettingFromActiveMode ==
    /\ ret.op = "get_setting" =>
          /\ (get_mode = "quick" /\ ret.name \in DOMAIN QUICK_SETTINGS)
                => ret.value = QUICK_SETTINGS[ret.name]
          /\ (get_mode = "quick" /\ ret.name \notin DOMAIN QUICK_SETTINGS)
                => ret.value = ret.default
          /\ (get_mode = "full" /\ ret.name \in DOMAIN FULL_SETTINGS)
                => ret.value = FULL_SETTINGS[ret.name]
          /\ (get_mode = "full" /\ ret.name \notin DOMAIN FULL_SETTINGS)
                => ret.value = ret.default
    /\ \A d \in Defaults :
          /\ get_mode = "quick" => get_setting("n_samples", d) = IntV(100)
          /\ get_mode = "full" => get_setting("n_samples", d) = IntV(1000)

C11_Witness ==
    /\ ret.op = "get_setting"
    /\ ret.name = "n_samples"
    /\ ret.default = IntV(7)
    /\ ret.value = IntV(1000)
    /\ get_mode = "full"
    /\ environ[MODE_KEY] = "full"

\* the rows of each of scikit-learn's sets
LoaderRows(name) ==
    CASE name = "iris" -> IrisRows
      [] name = "digits" -> 1797
      [] name = "wine" -> 178
      [] name = "breast_cancer" -> 569

\* C12: load_sklearn_dataset of a known name returns rows of the set the
\* loader of that name supplies: its first 100 rows in quick mode (30 for
\* wine), all of it in full mode; the shape and the hash returned are those
\* of the rows returned.
C12_RowsOfTheNamedLoader ==
    (ret.op = "load_sklearn_dataset" /\ ret.status = "loaded") =>
        LET total == LoaderRows(ret.name)
            k == IF ret.mode = "quick"
                 THEN Min(total, IF ret.name = "wine" THEN 30 ELSE 100)
                 ELSE total
        IN  /\ Len(ret.data) = k
            /\ \A i \in 1..Len(ret.data) :
                  ret.data[i] = Row(dataset_funcs_loader(ret.name), i)
            /\ ret.size = Len(ret.data)
            /\ ret.hash = compute_hash(ret.data)

====
